---------------------------- MODULE Spec2Model ----------------------------
(***************************************************************************)
(* Model of app_caclculo_taxa_BTG.py: the session object                   *)
(* CalculandoTaxadeGestao (planilha_controle, pl_data) and its operations  *)
(* load_control_file, load_pl_file and calculate_daily_fees.               *)
(*                                                                         *)
(* Conventions.                                                            *)
(*  - A Python str is a sequence of one-character strings.                 *)
(*  - A DataFrame is [columns |-> sequence of labels,                      *)
(*                    rows    |-> sequence of functions label -> cell].    *)
(*  - NaN is the null cell (NaN / NaT / None of pandas).                   *)
(*  - A fee is held in cents, a VALOR in thousands of currency units, an   *)
(*    annual rate in basis points (200 is 0.02) and a daily rate, which    *)
(*    the code holds in percent, in units of 10^-8 percent.                *)
(*  - Column labels are written in ASCII ("Taxa de Gestao").               *)
(*  - The accounts of a PL workbook are text cells, as the reference's     *)
(*    'conta' is text after load_control_file.                             *)
(*  - An upload and a file name are named by a short key; ControlWorkbooks,*)
(*    PlWorkbooks and FileNames give what each key stands for.             *)
(***************************************************************************)
EXTENDS Integers, Sequences, FiniteSets, TLC

VARIABLES
    planilha_controle,   \* self.planilha_controle: None or a DataFrame
    pl_data,             \* self.pl_data: list of DataFrames
    today_year,          \* datetime.date.today().year of the session
    object_round_raises, \* whether round() of an object-dtype Series raises in this build of pandas
    last,                \* the most recent call and how it ended
    result               \* what the most recent calculate_daily_fees returned

vars == <<planilha_controle, pl_data, today_year, object_round_raises, last, result>>

\* Python's None, and the null cell (NaN / NaT) of pandas.  Every cell is a
\* record: [num |-> n] a number, [str |-> s] a str, [int |-> n] and
\* [float |-> n] a whole number as read from a workbook, [day, month, year]
\* a datetime.
None == [none |-> TRUE]
NaN == [nan |-> TRUE]

Num(n) == [num |-> n]
Str(s) == [str |-> s]

\* ------------------------------------------------------------------ bounds

\* Largest number of DataFrames load_pl_file may have appended to pl_data.
MaxFiles == 2

\* ------------------------------------------------------------- str helpers

Range(s) == {s[i] : i \in 1..Len(s)}

Digits == <<"0", "1", "2", "3", "4", "5", "6", "7", "8", "9">>

IsDigit(c) == \E i \in 1..10 : Digits[i] = c

DigitVal(c) == (CHOOSE i \in 1..10 : Digits[i] = c) - 1

\* ord(c) of the characters that occur in account ids and DD.MM labels
Ord ==
    [c \in {".", "a", "n"} \cup Range(Digits) |->
        CASE c = "." -> 46
          [] c = "a" -> 97
          [] c = "n" -> 110
          [] OTHER -> 48 + DigitVal(c)]

\* Python's s < t on str.
RECURSIVE StrLess(_, _)
StrLess(s, t) ==
    IF t = <<>> THEN FALSE
    ELSE IF s = <<>> THEN TRUE
    ELSE IF Head(s) # Head(t) THEN Ord[Head(s)] < Ord[Head(t)]
    ELSE StrLess(Tail(s), Tail(t))

\* str(n) for an int n >= 0.
RECURSIVE IntToStr(_)
IntToStr(n) ==
    IF n < 10 THEN <<Digits[n + 1]>>
    ELSE Append(IntToStr(n \div 10), Digits[(n % 10) + 1])

\* Series.astype(str) on one cell: an int cell, a float cell holding a whole
\* number, a text cell (already a str), or NaN.
AsTypeStr(cell) ==
    IF cell = NaN THEN <<"n", "a", "n">>
    ELSE IF "int" \in DOMAIN cell THEN IntToStr(cell.int)
    ELSE IF "float" \in DOMAIN cell THEN IntToStr(cell.float) \o <<".", "0">>
    ELSE cell.str

\* s[:-2]
DropLast2(s) == IF Len(s) <= 2 THEN <<>> ELSE SubSeq(s, 1, Len(s) - 2)

\* sorted(S) for a finite set S of str
RECURSIVE SortedStrs(_)
SortedStrs(S) ==
    IF S = {} THEN <<>>
    ELSE LET x == CHOOSE y \in S : TRUE
             rest == SortedStrs(S \ {x})
             k == Cardinality({i \in 1..Len(rest) : StrLess(rest[i], x)})
         IN  SubSeq(rest, 1, k) \o <<x>> \o SubSeq(rest, k + 1, Len(rest))

\* ------------------------------------------------------- DataFrame helpers

DataFrame(cols, rws) == [columns |-> cols, rows |-> rws]

HasColumn(df, c) == \E i \in 1..Len(df.columns) : df.columns[i] = c

\* DataFrame.empty
IsEmpty(df) == Len(df.columns) = 0 \/ Len(df.rows) = 0

\* df[[c1, ..., cn]] for labels the frame has
SelectColumns(df, cols) ==
    DataFrame(cols, [i \in 1..Len(df.rows) |-> [c \in Range(cols) |-> df.rows[i][c]]])

\* df.rename(columns = {old1: new1, ...}) with the mapping given as a function
RenameColumns(df, m) ==
    LET new(c) == IF c \in DOMAIN m THEN m[c] ELSE c
        old(c) == CHOOSE o \in Range(df.columns) : new(o) = c
    IN  DataFrame([i \in 1..Len(df.columns) |-> new(df.columns[i])],
                  [i \in 1..Len(df.rows) |->
                      [c \in {new(o) : o \in Range(df.columns)} |-> df.rows[i][old(c)]]])

RECURSIVE SumSeq(_)
SumSeq(s) == IF s = <<>> THEN 0 ELSE Head(s) + SumSeq(Tail(s))

\* s without the members that repeat an earlier one
RECURSIVE Unique(_)
Unique(s) ==
    IF s = <<>> THEN <<>>
    ELSE LET init == Unique(SubSeq(s, 1, Len(s) - 1))
         IN  IF s[Len(s)] \in Range(init) THEN init ELSE Append(init, s[Len(s)])

RECURSIVE Flatten(_)
Flatten(ss) == IF ss = <<>> THEN <<>> ELSE Head(ss) \o Flatten(Tail(ss))

\* -------------------------------------------------- the control workbooks

\* What pd.read_excel(uploaded, sheet_name=1, skiprows=1) makes of an upload:
\* it raises (malformed bytes, no second sheet) or it returns a frame.
Workbook(cols, rws) == [malformed |-> FALSE, table |-> DataFrame(cols, rws)]

Malformed == [malformed |-> TRUE, table |-> DataFrame(<<>>, <<>>)]

ControlColumns == <<"Cliente", "Conta", "Taxa de Gestao">>

ControlRow(conta, taxa) ==
    [c \in Range(ControlColumns) |->
        IF c = "Conta" THEN conta ELSE IF c = "Taxa de Gestao" THEN taxa ELSE Str(<<"x">>)]

\* no 'Conta' column
CtlNoConta ==
    Workbook(<<"Codigo", "Taxa de Gestao">>,
             << [c \in {"Codigo", "Taxa de Gestao"} |->
                    IF c = "Codigo" THEN [float |-> 12345] ELSE Num(200)] >>)

\* no 'Taxa de Gestao' column
CtlNoTaxa ==
    Workbook(<<"Conta", "Cliente">>,
             << [c \in {"Conta", "Cliente"} |->
                    IF c = "Conta" THEN [float |-> 12345] ELSE Str(<<"x">>)] >>)

\* the header row and no account
CtlEmpty == Workbook(ControlColumns, <<>>)

\* 12345.0 -> 0012345, listed twice, at 2 % and at 1 %; 989247.0 -> 00989247,
\* an override id; 9999999 -> 0099999, with no rate
CtlDup ==
    Workbook(ControlColumns,
             << ControlRow([float |-> 12345], Num(200)),
                ControlRow([float |-> 12345], Num(100)),
                ControlRow([float |-> 989247], Num(100)),
                ControlRow([int |-> 9999999], NaN) >>)

\* raw strings of length 1, 2 and 3, and an int column cell that is an override id
\* once its last two digits are cut
CtlShort ==
    Workbook(ControlColumns,
             << ControlRow([int |-> 7], Num(200)),
                ControlRow(Str(<<"1", "2">>), Num(100)),
                ControlRow(NaN, Num(200)),
                ControlRow([float |-> 5], Num(0)),
                ControlRow([int |-> 98924712], Num(100)) >>)

\* the nine accounts of contas_3_zeros, and two near misses
CtlOverrides ==
    Workbook(ControlColumns,
             << ControlRow([float |-> 989247], Num(200)),
                ControlRow([float |-> 938440], Num(100)),
                ControlRow([float |-> 626491], Num(200)),
                ControlRow([float |-> 806386], Num(100)),
                ControlRow([float |-> 431814], Num(200)),
                ControlRow([float |-> 827730], Num(100)),
                ControlRow([float |-> 772433], Num(200)),
                ControlRow([float |-> 834301], Num(100)),
                ControlRow([float |-> 330949], Num(200)),
                ControlRow([float |-> 989248], Num(100)),
                ControlRow([float |-> 98924], Num(200)) >>)

\* the uploads a caller may pass to load_control_file
ControlWorkbooks ==
    [Malformed |-> Malformed, CtlNoConta |-> CtlNoConta, CtlNoTaxa |-> CtlNoTaxa,
     CtlEmpty |-> CtlEmpty, CtlDup |-> CtlDup,
     CtlShort |-> CtlShort, CtlOverrides |-> CtlOverrides]

\* ------------------------------------------------------- load_control_file

contas_3_zeros ==
    { <<"0", "0", "9", "8", "9", "2", "4", "7">>,
      <<"0", "0", "9", "3", "8", "4", "4", "0">>,
      <<"0", "0", "6", "2", "6", "4", "9", "1">>,
      <<"0", "0", "8", "0", "6", "3", "8", "6">>,
      <<"0", "0", "4", "3", "1", "8", "1", "4">>,
      <<"0", "0", "8", "2", "7", "7", "3", "0">>,
      <<"0", "0", "7", "7", "2", "4", "3", "3">>,
      <<"0", "0", "8", "3", "4", "3", "0", "1">>,
      <<"0", "0", "3", "3", "0", "9", "4", "9">> }

\* .astype(str).str[:-2].map(lambda x: '00' + x) on one cell
\* (variant: the last two characters are kept)
NormalizeContaMut(cell) == Str(<<"0", "0">> \o AsTypeStr(cell))
NormalizeConta(cell) == Str(<<"0", "0">> \o DropLast2(AsTypeStr(cell)))

\* self.planilha_controle['Conta'] = ... : the column is rewritten in place
NormalizeContaColumn(df) ==
    DataFrame(df.columns,
              [i \in 1..Len(df.rows) |->
                  [df.rows[i] EXCEPT !["Conta"] = NormalizeConta(df.rows[i]["Conta"])]])

\* the positions of the rows of df whose 'Conta' is one of contas_3_zeros
RECURSIVE IsInRows(_, _)
IsInRows(df, i) ==
    IF i > Len(df.rows) THEN <<>>
    ELSE (IF df.rows[i]["Conta"].str \in contas_3_zeros THEN <<i>> ELSE <<>>)
         \o IsInRows(df, i + 1)

\* df[df['Conta'].isin(contas_3_zeros)].reset_index(), then 'Conta' gets one
\* more leading '0': the rows keep their old position in the new column 'index'
ContasAddZero(df) ==
    LET at == IsInRows(df, 1)
    IN  DataFrame(<<"index">> \o df.columns,
                  [k \in 1..Len(at) |->
                      [c \in {"index"} \cup Range(df.columns) |->
                          IF c = "index" THEN Num(at[k] - 1)
                          ELSE IF c = "Conta"
                               THEN Str(<<"0">> \o df.rows[at[k]]["Conta"].str)
                               ELSE df.rows[at[k]][c]]])

\* the labels of b that a does not have, in b's order
NewColumns(a, b) == SelectSeq(b.columns, LAMBDA c : ~HasColumn(a, c))

\* pd.concat([a, b]): b's rows beneath a's, over the union of the columns,
\* a cell of a column the frame does not have being NaN
Concat(a, b) ==
    LET cols == a.columns \o NewColumns(a, b)
        fill(df) == [i \in 1..Len(df.rows) |->
                        [c \in Range(cols) |->
                            IF HasColumn(df, c) THEN df.rows[i][c] ELSE NaN]]
    IN  DataFrame(cols, fill(a) \o fill(b))

\* lines 18-28 on the frame read_excel returned: the value the attribute
\* holds when the call ends, and how it ends.  The attribute is assigned as
\* soon as the workbook is read (line 16) and again at lines 18 (in place), 19
\* and 27; the rename of line 28 is in place.  An exception at any line is
\* caught at line 29 and leaves the attribute as the last assignment made it.
ProcessControl(read) ==
    IF ~HasColumn(read, "Conta")
    THEN [planilha |-> read, outcome |-> "error"]
    ELSE LET normalized == NormalizeContaColumn(read)
         IN  IF ~HasColumn(normalized, "Taxa de Gestao")
             THEN [planilha |-> normalized, outcome |-> "error"]
             ELSE LET two == SelectColumns(normalized, <<"Conta", "Taxa de Gestao">>)
                      all == Concat(two, ContasAddZero(two))
                  IN  [planilha |->
                           RenameColumns(all,
                               [c \in {"Taxa de Gestao", "Conta"} |->
                                   IF c = "Conta" THEN "conta" ELSE "Taxa_de_Gestao"]),
                       outcome |-> "ok"]

\* ProcessControl on each upload that read_excel can read
ProcessedControl ==
    [u \in DOMAIN ControlWorkbooks |-> ProcessControl(ControlWorkbooks[u].table)]

\* load_control_file(uploaded) on a session whose attribute holds `old`: the
\* new planilha_controle and how the call ended.  When read_excel raises,
\* nothing was assigned.
LoadControl(old, u) ==
    IF ControlWorkbooks[u].malformed THEN [planilha |-> old, outcome |-> "error"]
    ELSE ProcessedControl[u]

\* ------------------------------------------------------- the PL workbooks

PlColumns == <<"Conta", "Nome", "Valor">>

PlRow(conta, valor) ==
    [c \in Range(PlColumns) |->
        IF c = "Conta" THEN conta ELSE IF c = "Valor" THEN valor ELSE Str(<<"x">>)]

Acc12345 == Str(<<"0", "0", "1", "2", "3", "4", "5">>)
Acc989247 == Str(<<"0", "0", "9", "8", "9", "2", "4", "7">>)
Acc0989247 == Str(<<"0", "0", "0", "9", "8", "9", "2", "4", "7">>)
Acc99999 == Str(<<"0", "0", "9", "9", "9", "9", "9">>)

\* no 'Valor' column
PlNoValor ==
    Workbook(<<"Conta", "Saldo">>,
             << [c \in {"Conta", "Saldo"} |->
                    IF c = "Conta" THEN Acc12345 ELSE Num(100)] >>)

PlA == Workbook(PlColumns, << PlRow(Acc12345, Num(100)) >>)

\* three accounts, one of them extra-padded
PlAB ==
    Workbook(PlColumns,
             << PlRow(Acc12345, Num(250)),
                PlRow(Acc99999, Num(100)),
                PlRow(Acc0989247, Num(250)) >>)

\* an account on two rows, a row with no account, a row with no value
PlDupNull ==
    Workbook(PlColumns,
             << PlRow(Acc12345, Num(100)),
                PlRow(Acc12345, Num(250)),
                PlRow(NaN, Num(100)),
                PlRow(Acc989247, NaN) >>)

\* the header row and no account
PlEmpty == Workbook(PlColumns, <<>>)

\* the uploads a caller may pass to load_pl_file
PlWorkbooks ==
    [Malformed |-> Malformed, PlNoValor |-> PlNoValor, PlA |-> PlA, PlAB |-> PlAB,
     PlDupNull |-> PlDupNull, PlEmpty |-> PlEmpty]

\* -------------------------------------------------------------- file names

PLTotal == <<"P", "L", " ", "T", "o", "t", "a", "l", " ", "-", " ">>
Xlsx == <<".", "x", "l", "s", "x">>

TaggedName(d1, d2, m1, m2) == PLTotal \o <<d1, d2, ".", m1, m2>> \o Xlsx

\* the file names a caller may pass to load_pl_file, each under a short key
FileNames ==
    [n_01_03 |-> TaggedName("0", "1", "0", "3"),
     n_15_02 |-> TaggedName("1", "5", "0", "2"),
     n_29_02 |-> TaggedName("2", "9", "0", "2"),
     n_31_02 |-> TaggedName("3", "1", "0", "2"),
     n_00_01 |-> TaggedName("0", "0", "0", "1"),
     n_01_13 |-> TaggedName("0", "1", "1", "3"),
     n_prefixed_15_02 |-> <<"B", "T", "G", " ">> \o TaggedName("1", "5", "0", "2"),
     n_report |-> <<"r", "e", "p", "o", "r", "t">> \o Xlsx,
     n_one_digit |-> PLTotal \o <<"1", ".", "0", "3">> \o Xlsx]

Years == {2023, 2024}

\* ------------------------------------------------------------ load_pl_file

\* whether r'PL Total - (\d{2}\.\d{2})' matches file_name at position i
MatchesAt(file_name, i) ==
    /\ i + Len(PLTotal) + 4 <= Len(file_name)
    /\ SubSeq(file_name, i, i + Len(PLTotal) - 1) = PLTotal
    /\ LET k == i + Len(PLTotal)
       IN  /\ IsDigit(file_name[k])
           /\ IsDigit(file_name[k + 1])
           /\ file_name[k + 2] = "."
           /\ IsDigit(file_name[k + 3])
           /\ IsDigit(file_name[k + 4])

\* re.search(...): group(1) of the leftmost match, or None
ReSearch(file_name) ==
    LET at == {i \in 1..Len(file_name) : MatchesAt(file_name, i)}
    IN  IF at = {} THEN None
        ELSE LET i == CHOOSE j \in at : \A k \in at : j <= k
             IN  Str(SubSeq(file_name, i + Len(PLTotal), i + Len(PLTotal) + 4))

IsLeap(y) == y % 4 = 0 /\ (y % 100 # 0 \/ y % 400 = 0)

DaysInMonth(y, m) ==
    IF m = 2 THEN (IF IsLeap(y) THEN 29 ELSE 28)
    ELSE IF m \in {4, 6, 9, 11} THEN 30 ELSE 31

\* the year strptime gives a date whose format names none
StrptimeYear == 1900

\* datetime.datetime.strptime(date_str, '%d.%m') on two digits, a dot and two
\* digits: %d takes 01..31 and %m 01..12, anything else fails to match or
\* leaves data unconverted; the date is then built in the year 1900.
\* "ValueError" stands for the exception.
Strptime(date_str) ==
    LET d == 10 * DigitVal(date_str[1]) + DigitVal(date_str[2])
        m == 10 * DigitVal(date_str[4]) + DigitVal(date_str[5])
    IN  IF d \in 1..31 /\ m \in 1..12 /\ d <= DaysInMonth(StrptimeYear, m)
        THEN [day |-> d, month |-> m, year |-> StrptimeYear]
        ELSE [error |-> "ValueError"]

\* datetime.replace(year = y)
ReplaceYear(dt, y) ==
    IF dt.day <= DaysInMonth(y, dt.month)
    THEN [day |-> dt.day, month |-> dt.month, year |-> y]
    ELSE [error |-> "ValueError"]

\* line 43: strptime(date_str, '%d.%m').replace(year = today().year)
ParseDate(date_str, year) ==
    LET dt == Strptime(date_str)
    IN  IF "error" \in DOMAIN dt THEN dt ELSE ReplaceYear(dt, year)

\* lines 36-46 on each file name in each year: the date, or how the call ends
DateOfName ==
    [f \in DOMAIN FileNames, year \in Years |->
        LET match == ReSearch(FileNames[f])
        IN  IF match = None THEN [error |-> "missing_tag"]
            ELSE LET date == ParseDate(match.str, year)
                 IN  IF "error" \in DOMAIN date THEN [error |-> "invalid_date"] ELSE date]

\* lines 48-49 on each upload: pl[['Conta', 'Valor']] renamed to conta and
\* VALOR, or the exception of read_excel or of the column selection
PlRead ==
    [u \in DOMAIN PlWorkbooks |->
        LET wb == PlWorkbooks[u]
        IN  IF wb.malformed \/ ~HasColumn(wb.table, "Conta") \/ ~HasColumn(wb.table, "Valor")
            THEN [error |-> "error"]
            ELSE RenameColumns(SelectColumns(wb.table, <<"Conta", "Valor">>),
                     [c \in {"Conta", "Valor"} |-> IF c = "Conta" THEN "conta" ELSE "VALOR"])]

\* line 50: pl['Data'] = date, on every row
SetData(pl, date) ==
    DataFrame(<<"conta", "VALOR", "Data">>,
              [i \in 1..Len(pl.rows) |->
                  [c \in {"conta", "VALOR", "Data"} |->
                      IF c = "Data" THEN date ELSE pl.rows[i][c]]])

\* line 51: self.pl_data.append(pl)
\* (variant: insert(0, pl))
AppendPlMut(list, pl) == <<pl>> \o list
AppendPl(list, pl) == Append(list, pl)

\* load_pl_file(uploaded_pl, file_name) on the upload u and the file name of
\* key f: the new pl_data and how the call ended
LoadPl(old, u, f, year) ==
    LET date == DateOfName[f, year]
    IN  IF "error" \in DOMAIN date THEN [pl_data |-> old, outcome |-> date.error]
        ELSE IF "error" \in DOMAIN PlRead[u] THEN [pl_data |-> old, outcome |-> "error"]
        ELSE [pl_data |-> AppendPl(old, SetData(PlRead[u], date)), outcome |-> "ok"]

\* ---------------------------------------------------- calculate_daily_fees

\* line 67: pd.concat(self.pl_data, ignore_index=True); every frame of pl_data
\* has the columns conta, VALOR, Data
\* (variant: .drop_duplicates() after the concat)
PlCombinedMut(list) ==
    DataFrame(<<"conta", "VALOR", "Data">>,
              Unique(Flatten([i \in 1..Len(list) |-> list[i].rows])))
PlCombined(list) ==
    DataFrame(<<"conta", "VALOR", "Data">>,
              Flatten([i \in 1..Len(list) |-> list[i].rows]))

RowsWithKey(df, k) == SelectSeq(df.rows, LAMBDA r : r["conta"] = k)

\* the join keys of an outer merge, in the order of its result: the str keys
\* sorted, then the null key
MergeKeys(left, right) ==
    LET cells == {left.rows[i]["conta"] : i \in 1..Len(left.rows)}
                 \cup {right.rows[i]["conta"] : i \in 1..Len(right.rows)}
        sorted == SortedStrs({c.str : c \in cells \ {NaN}})
    IN  [i \in 1..Len(sorted) |-> Str(sorted[i])]
        \o (IF NaN \in cells THEN <<NaN>> ELSE <<>>)

\* line 71: pd.merge(left, right, on='conta', how='outer'): every pair of a
\* left and a right row of one key, and the rows of a key only one side has,
\* with NaN in the other side's columns
Merge(left, right) ==
    LET cols == left.columns \o NewColumns(left, right)
        keys == MergeKeys(left, right)
        both(l, r) == [c \in Range(cols) |-> IF HasColumn(left, c) THEN l[c] ELSE r[c]]
        leftOnly(l) == [c \in Range(cols) |-> IF HasColumn(left, c) THEN l[c] ELSE NaN]
        rightOnly(r) == [c \in Range(cols) |-> IF HasColumn(right, c) THEN r[c] ELSE NaN]
        group(k) ==
            LET L == RowsWithKey(left, k)
                R == RowsWithKey(right, k)
            IN  IF R = <<>> THEN [i \in 1..Len(L) |-> leftOnly(L[i])]
                ELSE IF L = <<>> THEN [j \in 1..Len(R) |-> rightOnly(R[j])]
                ELSE Flatten([i \in 1..Len(L) |-> [j \in 1..Len(R) |-> both(L[i], R[j])]])
    IN  DataFrame(cols, Flatten([n \in 1..Len(keys) |-> group(keys[n])]))

\* .dropna(subset=['conta'])
DropNaConta(df) == DataFrame(df.columns, SelectSeq(df.rows, LAMBDA r : r["conta"] # NaN))

\* line 75: ((taxa + 1) ** (1/252) - 1) * 100, in units of 10^-8 percent
TxGestaoDiaria(taxa) ==
    IF taxa = NaN THEN NaN
    ELSE CASE taxa.num = 0 -> Num(0)
           [] taxa.num = 100 -> Num(394862)
           [] taxa.num = 200 -> Num(785849)

\* round(n / d) to the nearest whole number, a tie going to the even one
RoundHalfEven(n, d) ==
    LET q == n \div d
        r == n % d
    IN  IF 2 * r > d \/ (2 * r = d /\ q % 2 = 1) THEN q + 1 ELSE q

\* line 76: round(VALOR * Tx_Gestao_Diaria / 100, 2), in cents; a null
\* operand gives a null
ValorDeCobranca(valor, tx) ==
    IF valor = NaN \/ tx = NaN THEN NaN
    ELSE Num(RoundHalfEven(valor.num * tx.num, 100000))

TwoDigits(n) == <<Digits[(n \div 10) + 1], Digits[(n % 10) + 1]>>

\* line 79: pd.to_datetime(Data).dt.strftime('%d.%m'); NaT gives NaN
Strftime(date) ==
    IF date = NaN THEN NaN
    ELSE Str(TwoDigits(date.day) \o <<".">> \o TwoDigits(date.month))

\* lines 72-79: the frame tx_gestao the pivot reads
TxGestao(merged) ==
    LET kept == DropNaConta(SelectColumns(merged, <<"conta", "Taxa_de_Gestao", "VALOR", "Data">>))
        cols == <<"conta", "Taxa_de_Gestao", "VALOR", "Data", "Tx_Gestao_Diaria", "Valor_de_cobranca">>
    IN  DataFrame(cols,
            [i \in 1..Len(kept.rows) |->
                LET r == kept.rows[i]
                    tx == TxGestaoDiaria(r["Taxa_de_Gestao"])
                IN  [c \in Range(cols) |->
                        IF c = "Tx_Gestao_Diaria" THEN tx
                        ELSE IF c = "Valor_de_cobranca" THEN ValorDeCobranca(r["VALOR"], tx)
                        ELSE IF c = "Data" THEN Strftime(r["Data"])
                        ELSE r[c]]])

\* the rows pivot_table groups: groupby drops a row whose key has a null
Grouped(tx) == SelectSeq(tx.rows, LAMBDA r : r["conta"] # NaN /\ r["Data"] # NaN)

\* the index of the pivot: the accounts of the groups, sorted
PivotIndex(rows) == SortedStrs({rows[i]["conta"].str : i \in 1..Len(rows)})

\* the columns of the pivot: the dates of the groups, sorted
\* (variant: sort=False, the dates in the order of the rows)
PivotColumnsMut(rows) == Unique([i \in 1..Len(rows) |-> rows[i]["Data"].str])
PivotColumns(rows) == SortedStrs({rows[i]["Data"].str : i \in 1..Len(rows)})

\* aggfunc='sum' on one group: the nulls are skipped, and a group of nulls
\* alone sums to 0
GroupSum(rows) ==
    LET amounts == SelectSeq(rows, LAMBDA r : r["Valor_de_cobranca"] # NaN)
    IN  Num(SumSeq([i \in 1..Len(amounts) |-> amounts[i]["Valor_de_cobranca"].num]))

\* one cell of the pivot: the sum of its group, NaN where there is no group
PivotCell(rows, conta, data) ==
    LET g == SelectSeq(rows, LAMBDA r : r["conta"].str = conta /\ r["Data"].str = data)
    IN  IF g = <<>> THEN NaN ELSE GroupSum(g)

\* the dtype of a column: object as soon as it holds a str
IsNumberDtype(cells) == \A c \in cells : "str" \notin DOMAIN c

\* line 91: .sum(axis=1).round(2) over the cells of one row: the nulls count
\* as 0, and a sum of cents is a whole number of cents
\* (variant: skipna=False)
RowSumMut(cells) ==
    IF \E i \in 1..Len(cells) : cells[i] = NaN THEN NaN
    ELSE Num(SumSeq([i \in 1..Len(cells) |-> cells[i].num]))
RowSum(cells) ==
    LET nums == SelectSeq(cells, LAMBDA c : c # NaN)
    IN  Num(SumSeq([i \in 1..Len(nums) |-> nums[i].num]))

\* lines 82-91: pivot_table(...).reset_index() and the Total column.  The
\* frame has the columns conta, the dates and Total, from left to right;
\* numeric_columns are the columns of a number dtype, which 'conta' is not
\* when it holds str.
PivotTable(tx) ==
    LET rows == Grouped(tx)
        index == PivotIndex(rows)
        dates == PivotColumns(rows)
        cells == [i \in 1..Len(index) |->
                     [j \in 1..Len(dates) |-> PivotCell(rows, index[i], dates[j])]]
        contaNumeric == IsNumberDtype({tx.rows[i]["conta"] : i \in 1..Len(tx.rows)})
    IN  [kind |-> "report",
         conta |-> [i \in 1..Len(index) |-> Str(index[i])],
         dates |-> dates,
         cells |-> cells,
         Total |-> [i \in 1..Len(index) |->
                       RowSum((IF contaNumeric THEN <<Str(index[i])>> ELSE <<>>) \o cells[i])]]

\* calculate_daily_fees(): what it returns, or that it raised.  The guard of
\* lines 57-62 returns None; a reference without the column 'conta' makes
\* pd.merge raise KeyError.  When no frame of pl_data has a row, VALOR is a
\* column of dtype object and the round() of line 76 raises or not with the
\* build of pandas (roundRaises); where it does not, the pivot has no row.
CalculateDailyFees(planilha, list, roundRaises) ==
    IF planilha = None \/ IsEmpty(planilha) \/ Len(list) = 0
    THEN [kind |-> "none"]
    ELSE IF ~HasColumn(planilha, "conta") \/ ~HasColumn(planilha, "Taxa_de_Gestao")
    THEN [kind |-> "raised"]
    ELSE LET pl_combined == PlCombined(list)
         IN  IF Len(pl_combined.rows) = 0 /\ roundRaises
             THEN [kind |-> "raised"]
             ELSE PivotTable(TxGestao(Merge(planilha, pl_combined)))

\* ----------------------------------------------------------------- actions

NotCalled == [kind |-> "not called"]

Init ==
    /\ planilha_controle = None
    /\ pl_data = <<>>
    /\ today_year \in Years
    /\ object_round_raises \in BOOLEAN
    /\ last = [op |-> "__init__", outcome |-> "ok", file_name |-> ""]
    /\ result = NotCalled

LoadControlFile(u) ==
    LET r == LoadControl(planilha_controle, u)
    IN  /\ planilha_controle' = r.planilha
        /\ last' = [op |-> "load_control_file", outcome |-> r.outcome, file_name |-> ""]
        /\ result' = NotCalled
        /\ UNCHANGED <<pl_data, today_year, object_round_raises>>

LoadPlFile(u, f) ==
    /\ Len(pl_data) < MaxFiles
    /\ LET r == LoadPl(pl_data, u, f, today_year)
       IN  /\ pl_data' = r.pl_data
           /\ last' = [op |-> "load_pl_file", outcome |-> r.outcome, file_name |-> f]
    /\ result' = NotCalled
    /\ UNCHANGED <<planilha_controle, today_year, object_round_raises>>

\* (variant: the combined frame is stored back in self.pl_data)
CalculateMut ==
    /\ result' = CalculateDailyFees(planilha_controle, pl_data, object_round_raises)
    /\ last' = [op |-> "calculate_daily_fees", outcome |-> result'.kind, file_name |-> ""]
    /\ pl_data' = IF pl_data = <<>> THEN pl_data ELSE <<PlCombined(pl_data)>>
    /\ UNCHANGED <<planilha_controle, today_year, object_round_raises>>
Calculate ==
    /\ result' = CalculateDailyFees(planilha_controle, pl_data, object_round_raises)
    /\ last' = [op |-> "calculate_daily_fees", outcome |-> result'.kind, file_name |-> ""]
    /\ UNCHANGED <<planilha_controle, pl_data, today_year, object_round_raises>>

Next ==
    \/ \E u \in DOMAIN ControlWorkbooks : LoadControlFile(u)
    \/ \E u \in DOMAIN PlWorkbooks, f \in DOMAIN FileNames : LoadPlFile(u, f)
    \/ Calculate

Spec == Init /\ [][Next]_vars

\* ------------------------------------------------------------------ claims

IsLoadPl == last.op = "load_pl_file"
IsLoadControl == last.op = "load_control_file"
IsCalculate == last.op = "calculate_daily_fees"

\* The DD.MM tag of each file name, None where the name has none.
TagOfName == [f \in DOMAIN FileNames |-> ReSearch(FileNames[f])]

\* Whether DD.MM is a day of the calendar of `year`.
CalendarValid(date_str, year) ==
    LET d == 10 * DigitVal(date_str[1]) + DigitVal(date_str[2])
        m == 10 * DigitVal(date_str[4]) + DigitVal(date_str[5])
    IN  m \in 1..12 /\ d >= 1 /\ d <= DaysInMonth(year, m)

TagDay(date_str) == 10 * DigitVal(date_str[1]) + DigitVal(date_str[2])
TagMonth(date_str) == 10 * DigitVal(date_str[4]) + DigitVal(date_str[5])

\* Whether read_excel and the selection of 'Conta' and 'Valor' succeed on an upload.
PlParses(u) ==
    /\ ~PlWorkbooks[u].malformed
    /\ HasColumn(PlWorkbooks[u].table, "Conta")
    /\ HasColumn(PlWorkbooks[u].table, "Valor")

\* The row set of an upload under a date: its accounts and values in the
\* order of the workbook, each with the date.
RowSetOf(u, date_str, year) ==
    LET t == PlWorkbooks[u].table
    IN  DataFrame(<<"conta", "VALOR", "Data">>,
            [i \in 1..Len(t.rows) |->
                [conta |-> t.rows[i]["Conta"],
                 VALOR |-> t.rows[i]["Valor"],
                 Data |-> [day |-> TagDay(date_str), month |-> TagMonth(date_str),
                           year |-> year]]])

C2_FailedLoadLeavesNoTable ==
    (IsLoadControl /\ last.outcome = "error") =>
        \/ planilha_controle = None
        \/ (planilha_controle # None /\ IsEmpty(planilha_controle))

\* Whether the reference is a non-empty table with the columns conta and
\* Taxa_de_Gestao.
ValidReference ==
    /\ planilha_controle # None
    /\ HasColumn(planilha_controle, "conta")
    /\ HasColumn(planilha_controle, "Taxa_de_Gestao")
    /\ Len(planilha_controle.rows) > 0

NoSnapshotRow == \A i \in 1..Len(pl_data) : Len(pl_data[i].rows) = 0

\* C3: calculate_daily_fees returns None, without raising, whenever the
\* reference is not a valid non-empty table or no snapshot row was loaded.
C3_NoResultOnInsufficientInput ==
    (IsCalculate /\ (~ValidReference \/ NoSnapshotRow)) => result.kind = "none"

\* The accounts of the reference and of the snapshots (nulls apart).
ReferenceAccounts ==
    {planilha_controle.rows[i]["conta"] : i \in 1..Len(planilha_controle.rows)} \ {NaN}

SnapshotAccounts ==
    UNION {{pl_data[i].rows[k]["conta"] : k \in 1..Len(pl_data[i].rows)} :
              i \in 1..Len(pl_data)} \ {NaN}

\* C4: every account of the reference or of the snapshots is in the index of
\* the report exactly once.
C4_OuterJoinCompleteness ==
    (IsCalculate /\ result.kind = "report") =>
        \A a \in ReferenceAccounts \cup SnapshotAccounts :
            Cardinality({i \in 1..Len(result.conta) : result.conta[i] = a}) = 1

\* What C5 says of the table `pc` a successful load made of the frame `read`.
\* Source row i has the raw string raw(i); the rows of pc beyond the source's
\* are the added ones, and each tells its source row in the column 'index'.
ReferenceHoldsNormalizedRows(read, pc) ==
    LET n == Len(read.rows)
        raw(i) == AsTypeStr(read.rows[i]["Conta"])
        rate(i) == read.rows[i]["Taxa de Gestao"]
        long == {i \in 1..n : Len(raw(i)) > 2}
        norm(i) == <<"0", "0">> \o SubSeq(raw(i), 1, Len(raw(i)) - 2)
        added == (n + 1)..Len(pc.rows)
        addedOf(i) == {k \in added : pc.rows[k]["index"] = Num(i - 1)}
    IN  /\ Len(pc.rows) >= n
        /\ \A i \in long :
              /\ Len(norm(i)) = Len(raw(i))
              /\ pc.rows[i]["conta"] = Str(norm(i))
              /\ pc.rows[i]["Taxa_de_Gestao"] = rate(i)
              /\ Cardinality(addedOf(i)) = (IF norm(i) \in contas_3_zeros THEN 1 ELSE 0)
              /\ \A k \in addedOf(i) :
                    /\ pc.rows[k]["conta"] = Str(<<"0">> \o norm(i))
                    /\ pc.rows[k]["Taxa_de_Gestao"] = rate(i)
        /\ \A k \in added : \E i \in long : k \in addedOf(i)

\* C5: after a successful load_control_file, each source row whose raw
\* account string is longer than 2 characters is held, at its place, as '00'
\* and the raw string less its last 2 characters (a string as long as the raw
\* one) with the row's rate; one more row with one more leading '0' and the
\* same rate is added for it exactly when that id is one of contas_3_zeros,
\* the first row staying; and no other row is added.
C5_NormalizedAndOverrideRows ==
    [][last'.op = "load_control_file" /\ last'.outcome = "ok" =>
          \A u \in DOMAIN ControlWorkbooks :
              LoadControlFile(u) =>
                  ReferenceHoldsNormalizedRows(ControlWorkbooks[u].table, planilha_controle')]_vars

\* C5 witness: a loaded reference holds an override account under both ids.
C5_Witness ==
    /\ IsLoadControl
    /\ last.outcome = "ok"
    /\ \E i, k \in 1..Len(planilha_controle.rows) :
          /\ planilha_controle.rows[i]["conta"] = Acc989247
          /\ planilha_controle.rows[k]["conta"] = Acc0989247

\* The value of a cell of the report, a null counting as 0.
CellValue(c) == IF c = NaN THEN 0 ELSE c.num

\* C6: in a report, the Total of each row is the sum of the row's date
\* cells, a null cell counting as 0, and of nothing else.
C6_TotalIsSumOfDateCells ==
    (IsCalculate /\ result.kind = "report") =>
        \A i \in 1..Len(result.conta) :
            result.Total[i] =
                Num(SumSeq([j \in 1..Len(result.dates) |-> CellValue(result.cells[i][j])]))

\* C6 witness: a report has a row with a null cell and a Total above 0.
C6_Witness ==
    /\ IsCalculate
    /\ result.kind = "report"
    /\ \E i \in 1..Len(result.conta) :
          /\ \E j \in 1..Len(result.dates) : result.cells[i][j] = NaN
          /\ result.Total[i] # NaN
          /\ result.Total[i].num > 0

\* The first place in pl_data of a row set with a row of the date DD.MM.
FirstSeen(label) ==
    LET at == {i \in 1..Len(pl_data) :
                  \E k \in 1..Len(pl_data[i].rows) :
                      /\ pl_data[i].rows[k]["Data"].day = TagDay(label)
                      /\ pl_data[i].rows[k]["Data"].month = TagMonth(label)}
    IN  CHOOSE i \in at : \A k \in at : i <= k

\* C7 as claimed: the date columns of a report stand in the order in which
\* load_pl_file first appended their dates.
C7_DateColumnsInFirstSeenOrder ==
    (IsCalculate /\ result.kind = "report") =>
        \A j, k \in 1..Len(result.dates) :
            j < k => FirstSeen(result.dates[j]) <= FirstSeen(result.dates[k])

\* C7 amended: the date columns of a report stand in the ascending order of
\* their DD.MM labels read as text, that is by day and then by month,
\* whatever the order of the uploads.
C7_DateColumnsSortedByLabel ==
    (IsCalculate /\ result.kind = "report") =>
        \A j, k \in 1..Len(result.dates) :
            j < k =>
                \/ TagDay(result.dates[j]) < TagDay(result.dates[k])
                \/ /\ TagDay(result.dates[j]) = TagDay(result.dates[k])
                   /\ TagMonth(result.dates[j]) < TagMonth(result.dates[k])

\* C7 witness: a report has two date columns, and the date of the second
\* was uploaded first.
C7_Witness ==
    /\ IsCalculate
    /\ result.kind = "report"
    /\ Len(result.dates) = 2
    /\ FirstSeen(result.dates[2]) < FirstSeen(result.dates[1])

\* C8: a calculate_daily_fees call leaves planilha_controle and pl_data as
\* they were, and a call that follows another one returns what it returned.
C8_CalculateLeavesInputsAlone ==
    [][last'.op = "calculate_daily_fees" =>
          /\ planilha_controle' = planilha_controle
          /\ pl_data' = pl_data
          /\ (last.op = "calculate_daily_fees" => result' = result)]_vars

\* C8 witness: a report was returned from a reference and two row sets.
C8_Witness ==
    /\ IsCalculate
    /\ result.kind = "report"
    /\ Len(result.conta) > 0
    /\ Len(pl_data) = 2

\* C9: a file whose name carries the tag DD.MM is skipped as an invalid date
\* exactly when DD.MM is no day of the calendar of the current year, and a
\* file that is accepted carries DD, MM and the current year on every row.
C9_InvalidExactlyWhenNotInCalendar ==
    (IsLoadPl /\ TagOfName[last.file_name] # None) =>
        LET tag == TagOfName[last.file_name].str
            pl == pl_data[Len(pl_data)]
        IN  /\ (last.outcome = "invalid_date") <=> ~CalendarValid(tag, today_year)
            /\ last.outcome = "ok" =>
                   \A k \in 1..Len(pl.rows) :
                       pl.rows[k]["Data"] =
                           [day |-> TagDay(tag), month |-> TagMonth(tag), year |-> today_year]

\* The fee of one snapshot row under one rate, a null counting as 0.
FeeOf(taxa, valor) == CellValue(ValorDeCobranca(valor, TxGestaoDiaria(taxa)))

\* The snapshot rows of an account and a date, as <<i, k>>: row k of pl_data[i].
SnapshotRowsOf(conta, label) ==
    {p \in UNION {{<<i, k>> : k \in 1..Len(pl_data[i].rows)} : i \in 1..Len(pl_data)} :
        /\ pl_data[p[1]].rows[p[2]]["conta"] = conta
        /\ pl_data[p[1]].rows[p[2]]["Data"].day = TagDay(label)
        /\ pl_data[p[1]].rows[p[2]]["Data"].month = TagMonth(label)}

\* The members of a finite set, in some order.
RECURSIVE SetToSeq(_)
SetToSeq(S) ==
    IF S = {} THEN <<>>
    ELSE LET x == CHOOSE y \in S : TRUE IN <<x>> \o SetToSeq(S \ {x})

\* The sum of the fees of every pair of a reference row and a snapshot row
\* of the account and the date.
JoinedFees(conta, label) ==
    LET refs == {r \in 1..Len(planilha_controle.rows) :
                    planilha_controle.rows[r]["conta"] = conta}
        snaps == SetToSeq(SnapshotRowsOf(conta, label))
        pairs == SetToSeq(refs \X Range(snaps))
    IN  SumSeq([n \in 1..Len(pairs) |->
                   FeeOf(planilha_controle.rows[pairs[n][1]]["Taxa_de_Gestao"],
                         pl_data[pairs[n][2][1]].rows[pairs[n][2][2]]["VALOR"])])

\* C10: each cell of a report is the sum of the fees of all the joined rows
\* of its account and date: every snapshot row of pl_data counts, a row
\* loaded twice twice, and each counts once for every row the reference has
\* for the account; a cell is null only where the account has no snapshot
\* row of the date.
C10_CellSumsAllJoinedRows ==
    (IsCalculate /\ result.kind = "report") =>
        \A i \in 1..Len(result.conta), j \in 1..Len(result.dates) :
            result.cells[i][j] =
                IF SnapshotRowsOf(result.conta[i], result.dates[j]) = {} THEN NaN
                ELSE Num(JoinedFees(result.conta[i], result.dates[j]))

\* C10 witness: the same row set was loaded twice and an account listed
\* twice in the reference has a fee in the report.
C10_Witness ==
    /\ IsCalculate
    /\ result.kind = "report"
    /\ Len(pl_data) = 2
    /\ pl_data[1] = pl_data[2]
    /\ \E i \in 1..Len(result.conta) :
          /\ Cardinality({r \in 1..Len(planilha_controle.rows) :
                             planilha_controle.rows[r]["conta"] = result.conta[i]}) = 2
          /\ result.Total[i].num > 0

=============================================================================
